---------------------------- MODULE Spec2Model ----------------------------
(***************************************************************************)
(* A model of frontends/flutter/query_signoz_logs.py: one invocation of    *)
(* main(), from the parsed command line to the rendered output.            *)
(*                                                                         *)
(* Text is modelled by TLA+ strings (Len, \o, SubSeq, Head and Tail work   *)
(* on them in TLC), so formatting, parsing, truncation and comparison are  *)
(* computed character by character as the Python code computes them.       *)
(***************************************************************************)
EXTENDS Integers, Sequences, FiniteSets, TLC

VARIABLES
    args,              \* argparse namespace of the invocation (main, l.448)
    clock,             \* what datetime.utcnow() returns
    replies,           \* what the query service answers to the successive POSTs
    pc,                \* control position of main()
    metadata_filters,  \* main's local metadata_filters (l.451)
    fields_to_show,    \* main's local fields_to_show (l.454)
    sent,              \* payloads POSTed so far (requests.post, l.127)
    fetched,           \* the row lists returned by the query_logs calls so far
    tx_rows,           \* correlate_tx_and_errors' local tx_rows (l.344)
    all_rows,          \* correlate_tx_and_errors' local all_rows (l.359-368)
    shown_fields,      \* the field list the display path resolved
    out,               \* the rows printed, one record per print() of a row
    err                \* the exception that ended the invocation, "" if none

vars == <<args, clock, replies, pc, metadata_filters, fields_to_show, sent,
          fetched, tx_rows, all_rows, shown_fields, out, err>>

---------------------------------------------------------------------------
(* Python values                                                           *)

\* An optional argument: None, or a value.
None == [some |-> FALSE, v |-> ""]
Some(s) == [some |-> TRUE, v |-> s]
NoList == [some |-> FALSE, v |-> <<>>]
SomeList(l) == [some |-> TRUE, v |-> l]

\* Python truthiness of an optional string or list: None, "" and [] are falsy.
Truthy(o) == o.some /\ Len(o.v) > 0

\* A JSON value of a row's data: a string, null, an integer or a list of integers.
StrVal(s) == [kind |-> "str", text |-> s, num |-> 0, items |-> <<>>]
NullVal == [kind |-> "null", text |-> "", num |-> 0, items |-> <<>>]
IntVal(n) == [kind |-> "int", text |-> "", num |-> n, items |-> <<>>]
ListVal(l) == [kind |-> "list", text |-> "", num |-> 0, items |-> l]

\* The empty dict.
EmptyDict == <<>>

---------------------------------------------------------------------------
(* Strings                                                                 *)

\* The characters the model uses, in code point order.
AsciiOrder == " \"%,-.0123456789:=ABCDEFGHIJKLMNOPQRSTUVWXYZ[]_abcdefghijklmnopqrstuvwxyz|"

CharCode(c) == CHOOSE i \in 1..Len(AsciiOrder) : SubSeq(AsciiOrder, i, i) = c

\* Python's `sub in s`.
Contains(sub, s) ==
    \E i \in 1..(Len(s) - Len(sub) + 1) : SubSeq(s, i, i + Len(sub) - 1) = sub

\* Python's str < str: lexicographic by code point, a proper prefix first.
RECURSIVE StrLess(_, _)
StrLess(a, b) ==
    IF b = "" THEN FALSE
    ELSE IF a = "" THEN TRUE
    ELSE IF Head(a) = Head(b) THEN StrLess(Tail(a), Tail(b))
    ELSE CharCode(Head(a)) < CharCode(Head(b))

StrLeq(a, b) == a = b \/ StrLess(a, b)

\* str.replace(c, "") for a one-character c.
RECURSIVE RemoveChar(_, _)
RemoveChar(s, c) ==
    IF s = "" THEN ""
    ELSE IF Head(s) = c THEN RemoveChar(Tail(s), c)
    ELSE Head(s) \o RemoveChar(Tail(s), c)

\* str.strip(), for the blank.
RECURSIVE LStrip(_)
LStrip(s) == IF s # "" /\ Head(s) = " " THEN LStrip(Tail(s)) ELSE s

RECURSIVE RStrip(_)
RStrip(s) ==
    IF s # "" /\ SubSeq(s, Len(s), Len(s)) = " "
    THEN RStrip(SubSeq(s, 1, Len(s) - 1)) ELSE s

Strip(s) == RStrip(LStrip(s))

\* sep.join(parts)
RECURSIVE Join(_, _)
Join(sep, parts) ==
    IF Len(parts) = 0 THEN ""
    ELSE IF Len(parts) = 1 THEN parts[1]
    ELSE parts[1] \o sep \o Join(sep, Tail(parts))

\* str(n) for an integer n >= 0.
Digits == "0123456789"

RECURSIVE IntToStr(_)
IntToStr(n) ==
    IF n < 10 THEN SubSeq(Digits, n + 1, n + 1)
    ELSE IntToStr(n \div 10) \o SubSeq(Digits, (n % 10) + 1, (n % 10) + 1)

IsDigit(c) == \E i \in 1..10 : SubSeq(Digits, i, i) = c
DigitVal(c) == (CHOOSE i \in 1..10 : SubSeq(Digits, i, i) = c) - 1

\* sorted(set of strings)
RECURSIVE Sorted(_)
Sorted(S) ==
    IF S = {} THEN <<>>
    ELSE LET m == CHOOSE x \in S : \A y \in S : StrLeq(x, y)
         IN <<m>> \o Sorted(S \ {m})

---------------------------------------------------------------------------
(* Time: a datetime is its milliseconds since 2025-01-01T00:00:00, naive    *)
(* UTC. The origin is moved from 1970 to keep the numbers within TLC's     *)
(* integers; the order of two datetimes and their difference are the same. *)

MsPerSecond == 1000
MsPerMinute == 60000
MsPerDay == 86400000

\* The calendar dates the model's time strings use, as days since the origin.
KnownDates == ("2025-01-01" :> 0) @@ ("2025-01-02" :> 1)

ParseFail == -1

\* Two decimal digits as a number, ParseFail if they are not digits.
Num2(s) ==
    IF Len(s) = 2 /\ IsDigit(SubSeq(s, 1, 1)) /\ IsDigit(SubSeq(s, 2, 2))
    THEN 10 * DigitVal(SubSeq(s, 1, 1)) + DigitVal(SubSeq(s, 2, 2))
    ELSE ParseFail

\* datetime.strptime(s, "%H:%M:%S").time(), as the second of the day; ParseFail
\* for the ValueError. (Zero-padded fields only: the model's inputs hold no others.)
strptime_HMS(s) ==
    IF Len(s) # 8 \/ SubSeq(s, 3, 3) # ":" \/ SubSeq(s, 6, 6) # ":" THEN ParseFail
    ELSE LET h == Num2(SubSeq(s, 1, 2))
             m == Num2(SubSeq(s, 4, 5))
             sec == Num2(SubSeq(s, 7, 8))
         IN IF h = ParseFail \/ m = ParseFail \/ sec = ParseFail THEN ParseFail
            ELSE IF h > 23 \/ m > 59 \/ sec > 59 THEN ParseFail
            ELSE 3600 * h + 60 * m + sec

\* Three decimal digits (a fraction of a second, in ms), ParseFail otherwise.
Num3(s) ==
    IF Len(s) = 3 /\ \A i \in 1..3 : IsDigit(SubSeq(s, i, i))
    THEN 100 * DigitVal(SubSeq(s, 1, 1)) + 10 * DigitVal(SubSeq(s, 2, 2))
         + DigitVal(SubSeq(s, 3, 3))
    ELSE ParseFail

\* datetime.fromisoformat(s), ParseFail for the ValueError:
\* YYYY-MM-DD, then optionally any one separator and HH:MM:SS, then optionally
\* .fff. (The forms the model's inputs use; a date must be one of KnownDates.)
fromisoformat(s) ==
    IF Len(s) \notin {10, 19, 23} THEN ParseFail
    ELSE IF SubSeq(s, 1, 10) \notin DOMAIN KnownDates THEN ParseFail
    ELSE LET day == KnownDates[SubSeq(s, 1, 10)] * MsPerDay
         IN IF Len(s) = 10 THEN day
            ELSE LET t == strptime_HMS(SubSeq(s, 12, 19))
                     f == IF Len(s) = 23 THEN Num3(SubSeq(s, 21, 23)) ELSE 0
                 IN IF t = ParseFail \/ f = ParseFail THEN ParseFail
                    ELSE IF Len(s) = 23 /\ SubSeq(s, 20, 20) # "." THEN ParseFail
                    ELSE day + t * MsPerSecond + f

\* A variant of timegm_ms that keeps the fraction of a second (as
\* t.timestamp() * 1000 would).
timegm_ms_KeepFraction(t) == t

\* int(calendar.timegm(t.timetuple()) * 1000): timetuple drops the fraction of
\* a second.
timegm_ms(t) == (t \div MsPerSecond) * MsPerSecond

\* query_logs, l.53-65: the (start_time, end_time) pair, ok = FALSE for the
\* ValueError that fromisoformat or strptime raises.
ResolveTimes(minutes, start_utc, end_utc, now) ==
    IF Truthy(start_utc) /\ Truthy(end_utc)
    THEN IF Contains("T", start_utc.v)
         THEN LET s == fromisoformat(RemoveChar(start_utc.v, "Z"))
                  e == fromisoformat(RemoveChar(end_utc.v, "Z"))
              IN [ok |-> s # ParseFail /\ e # ParseFail, start_time |-> s, end_time |-> e]
         ELSE LET today == (now \div MsPerDay) * MsPerDay
                  s == strptime_HMS(start_utc.v)
                  e == strptime_HMS(end_utc.v)
              IN [ok |-> s # ParseFail /\ e # ParseFail,
                  start_time |-> today + s * MsPerSecond,
                  end_time |-> today + e * MsPerSecond]
    ELSE [ok |-> TRUE, start_time |-> now - minutes * MsPerMinute, end_time |-> now]

---------------------------------------------------------------------------
(* The filter expression                                                   *)

\* A dict of strings, as the list of its items in insertion order.
RECURSIVE MetaClauses(_)
MetaClauses(items) ==
    IF Len(items) = 0 THEN <<>>
    ELSE <<items[1].key \o "=\"" \o items[1].value \o "\"">> \o MetaClauses(Tail(items))

\* A variant of FilterParts that appends the trace id clause before the body
\* clause.
FilterParts_TraceBeforeBody(severity, body_filter, trace_id, meta) ==
    (IF Truthy(severity) THEN <<"severity_text=\"" \o severity.v \o "\"">> ELSE <<>>)
    \o (IF Truthy(trace_id) THEN <<"trace_id=\"" \o trace_id.v \o "\"">> ELSE <<>>)
    \o (IF Truthy(body_filter) THEN <<"body ILIKE \"%" \o body_filter.v \o "%\"">> ELSE <<>>)
    \o (IF Truthy(meta) THEN MetaClauses(meta.v) ELSE <<>>)

\* query_logs, l.84-95: filter_parts.
FilterParts(severity, body_filter, trace_id, meta) ==
    (IF Truthy(severity) THEN <<"severity_text=\"" \o severity.v \o "\"">> ELSE <<>>)
    \o (IF Truthy(body_filter) THEN <<"body ILIKE \"%" \o body_filter.v \o "%\"">> ELSE <<>>)
    \o (IF Truthy(trace_id) THEN <<"trace_id=\"" \o trace_id.v \o "\"">> ELSE <<>>)
    \o (IF Truthy(meta) THEN MetaClauses(meta.v) ELSE <<>>)

\* query_logs, l.97: filter_expr.
FilterExpr(severity, body_filter, trace_id, meta) ==
    LET filter_parts == FilterParts(severity, body_filter, trace_id, meta)
    IN IF Len(filter_parts) > 0 THEN Join(" AND ", filter_parts) ELSE ""

\* dict[key] = value: a present key keeps its place and takes the new value.
DictSet(items, k, val) ==
    IF \E i \in 1..Len(items) : items[i].key = k
    THEN [i \in 1..Len(items) |->
             IF items[i].key = k THEN [key |-> k, value |-> val] ELSE items[i]]
    ELSE Append(items, [key |-> k, value |-> val])

\* The place of the first "=" of s (s holds one).
FirstEq(s) ==
    CHOOSE i \in 1..Len(s) :
        SubSeq(s, i, i) = "=" /\ \A j \in 1..(i - 1) : SubSeq(s, j, j) # "="

\* parse_metadata_filters, l.399-405: the dict built from the --meta arguments.
RECURSIVE ParseMetaLoop(_, _)
ParseMetaLoop(meta_args, filters) ==
    IF Len(meta_args) = 0 THEN filters
    ELSE LET meta == meta_args[1]
         IN IF Contains("=", meta)
            THEN LET i == FirstEq(meta)
                 IN ParseMetaLoop(Tail(meta_args),
                        DictSet(filters, Strip(SubSeq(meta, 1, i - 1)),
                                Strip(SubSeq(meta, i + 1, Len(meta)))))
            ELSE ParseMetaLoop(Tail(meta_args), filters)

\* parse_metadata_filters, l.394-407: None for no argument and for an empty dict.
parse_metadata_filters(meta_args) ==
    IF ~Truthy(meta_args) THEN NoList
    ELSE LET filters == ParseMetaLoop(meta_args.v, <<>>)
         IN IF Len(filters) > 0 THEN SomeList(filters) ELSE NoList

---------------------------------------------------------------------------
(* Rows and their rendering                                                *)

\* row.get("timestamp", ""), row.get("data", {})
RowTimestamp(row) == IF "timestamp" \in DOMAIN row THEN row.timestamp ELSE ""
RowData(row) == IF "data" \in DOMAIN row THEN row.data ELSE EmptyDict

\* row_data.get("body", ""), row_data.get("severity_text", default)
RowBody(row_data) == IF "body" \in DOMAIN row_data THEN row_data["body"].text ELSE ""
RowSeverity(row_data, default) ==
    IF "severity_text" \in DOMAIN row_data THEN row_data["severity_text"].text ELSE default

\* s[:n]
Prefix(s, n) == IF Len(s) > n THEN SubSeq(s, 1, n) ELSE s

BodyWidth == 150
ErrorBodyWidth == 300
MaxValueWidth == 50
KeptValueWidth == 47

\* json.dumps(l, separators=(',', ':')) for a list of integers.
json_dumps(l) == "[" \o Join(",", [i \in 1..Len(l) |-> IntToStr(l[i])]) \o "]"

\* format_metadata_fields, l.195-200: the value as text.
ValueText(value) ==
    IF value.kind = "list" THEN json_dumps(value.items)
    ELSE IF value.kind = "null" THEN ""
    ELSE IF value.kind = "int" THEN IntToStr(value.num)
    ELSE value.text

\* A variant of TruncateValue that already truncates a value of exactly
\* MaxValueWidth characters.
TruncateValue_OffByOne(value) ==
    IF Len(value) >= MaxValueWidth THEN SubSeq(value, 1, KeptValueWidth) \o "..." ELSE value

\* format_metadata_fields, l.203-204: truncate long values.
TruncateValue(value) ==
    IF Len(value) > MaxValueWidth THEN SubSeq(value, 1, KeptValueWidth) \o "..." ELSE value

\* A variant of MetadataParts that renders a field absent from the row as an
\* empty value.
RECURSIVE MetadataParts_Placeholder(_, _)
MetadataParts_Placeholder(row_data, fields) ==
    IF Len(fields) = 0 THEN <<>>
    ELSE <<[field |-> fields[1],
            value |-> IF fields[1] \in DOMAIN row_data
                      THEN (IF Len(ValueText(row_data[fields[1]])) > MaxValueWidth
                            THEN SubSeq(ValueText(row_data[fields[1]]), 1, KeptValueWidth) \o "..."
                            ELSE ValueText(row_data[fields[1]]))
                      ELSE ""]>>
         \o MetadataParts_Placeholder(row_data, Tail(fields))

\* format_metadata_fields, l.190-206: metadata_parts, each part kept as its
\* (field, value) pair; the part's text is field=value.
RECURSIVE MetadataParts(_, _)
MetadataParts(row_data, fields) ==
    IF Len(fields) = 0 THEN <<>>
    ELSE (IF fields[1] \in DOMAIN row_data
          THEN <<[field |-> fields[1],
                  value |-> TruncateValue(ValueText(row_data[fields[1]]))]>>
          ELSE <<>>)
         \o MetadataParts(row_data, Tail(fields))

PartText(part) == part.field \o "=" \o part.value

\* format_metadata_fields, l.186-210, for a dict row_data and a list
\* fields_to_show (every caller passes a list).
format_metadata_fields(row_data, fields) ==
    LET metadata_parts == MetadataParts(row_data, fields)
    IN IF Len(fields) = 0 THEN ""
       ELSE IF Len(metadata_parts) > 0
       THEN " | " \o Join(" | ", [i \in 1..Len(metadata_parts) |-> PartText(metadata_parts[i])])
       ELSE ""

\* extract_all_metadata_fields, l.159-166
extract_all_metadata_fields(rows) ==
    Sorted(UNION {DOMAIN RowData(rows[i]) : i \in 1..Len(rows)})

NotShownSeparately(f) == f \notin {"body", "severity_text"}

DefaultFields == <<"trace_id", "span_id", "app.component">>

\* A variant of SelectFields that looks at the explicit list first.
SelectFields_ExplicitFirst(rows, fields, show_all_fields) ==
    IF fields.some THEN fields.v
    ELSE IF show_all_fields
    THEN SelectSeq(extract_all_metadata_fields(rows), NotShownSeparately)
    ELSE DefaultFields

\* The choice of the fields to render, the same in display_logs (l.226-234),
\* query_tx_logs (l.281-286), query_error_logs (l.312-317) and
\* correlate_tx_and_errors (l.370-375).
SelectFields(rows, fields, show_all_fields) ==
    IF show_all_fields
    THEN SelectSeq(extract_all_metadata_fields(rows), NotShownSeparately)
    ELSE IF ~fields.some THEN DefaultFields
    ELSE fields.v

DefaultHighlight == <<"[TX]", "ERROR", "COMMIT", "BEGIN", "Autocommit">>

\* A variant of DisplayMarker that leaves the severity out.
DisplayMarker_KeywordOnly(body, severity, highlight_keywords) ==
    IF \E i \in 1..Len(highlight_keywords) : Contains(highlight_keywords[i], body)
    THEN ">>>" ELSE "   "

\* display_logs, l.247-249: the marker of a row.
DisplayMarker(body, severity, highlight_keywords) ==
    LET is_highlighted ==
            \E i \in 1..Len(highlight_keywords) : Contains(highlight_keywords[i], body)
    IN IF is_highlighted \/ severity = "ERROR" THEN ">>>" ELSE "   "

\* One printed row: the pieces the print's f-string interpolates, with the
\* row's metadata_parts.
Printed(marker, ts, severity, body, row_data, fields) ==
    [marker |-> marker, ts |-> ts, severity |-> severity, body |-> body,
     parts |-> MetadataParts(row_data, fields),
     meta |-> format_metadata_fields(row_data, fields)]

\* display_logs, l.236-260: the rows printed.
RECURSIVE DisplayLoop(_, _, _, _)
DisplayLoop(rows, highlight_keywords, body_contains, fields) ==
    IF Len(rows) = 0 THEN <<>>
    ELSE LET row_data == RowData(rows[1])
             ts == RowTimestamp(rows[1])
             severity == RowSeverity(row_data, "INFO")
             body == RowBody(row_data)
         IN (IF Truthy(body_contains) /\ ~Contains(body_contains.v, body)
             THEN <<>>
             ELSE <<Printed(DisplayMarker(body, severity, highlight_keywords), ts,
                            severity, Prefix(body, BodyWidth), row_data, fields)>>)
            \o DisplayLoop(Tail(rows), highlight_keywords, body_contains, fields)

\* query_tx_logs, l.288-293, and query_error_logs, l.319-324: the rows printed,
\* with no marker and no severity.
PlainLoop(rows, width, fields) ==
    [i \in 1..Len(rows) |->
        Printed("", RowTimestamp(rows[i]), "", Prefix(RowBody(RowData(rows[i])), width),
                RowData(rows[i]), fields)]

\* The [TX] filter of query_tx_logs (l.278) and correlate_tx_and_errors (l.344).
IsTxRow(row) == Contains("[TX]", RowBody(RowData(row)))

\* row["_type"] = tag
Tagged(row, tag) == [k \in DOMAIN row \cup {"_type"} |-> IF k = "_type" THEN tag ELSE row[k]]

\* A variant of TagAndConcat that tags the rows of both streams "TX".
TagAndConcat_AllTx(txs, errors) ==
    [i \in 1..Len(txs) |-> Tagged(txs[i], "TX")]
    \o [i \in 1..Len(errors) |-> Tagged(errors[i], "TX")]

\* correlate_tx_and_errors, l.359-365: all_rows before the sort.
TagAndConcat(txs, errors) ==
    [i \in 1..Len(txs) |-> Tagged(txs[i], "TX")]
    \o [i \in 1..Len(errors) |-> Tagged(errors[i], "ERROR")]

\* A variant of InsertByTimestamp that puts a row before the rows of the same
\* timestamp: a sort that is not stable.
RECURSIVE InsertByTimestamp_BeforeEqual(_, _)
InsertByTimestamp_BeforeEqual(sorted, row) ==
    IF Len(sorted) = 0 THEN <<row>>
    ELSE IF StrLeq(RowTimestamp(row), RowTimestamp(sorted[Len(sorted)]))
    THEN Append(InsertByTimestamp_BeforeEqual(SubSeq(sorted, 1, Len(sorted) - 1), row),
                sorted[Len(sorted)])
    ELSE Append(sorted, row)

\* list.sort(key=timestamp), l.368: a stable sort. Each row goes behind every
\* row already placed whose key is not greater.
RECURSIVE InsertByTimestamp(_, _)
InsertByTimestamp(sorted, row) ==
    IF Len(sorted) = 0 THEN <<row>>
    ELSE IF StrLess(RowTimestamp(row), RowTimestamp(sorted[Len(sorted)]))
    THEN Append(InsertByTimestamp(SubSeq(sorted, 1, Len(sorted) - 1), row),
                sorted[Len(sorted)])
    ELSE Append(sorted, row)

RECURSIVE SortFrom(_, _)
SortFrom(sorted, rows) ==
    IF Len(rows) = 0 THEN sorted
    ELSE SortFrom(InsertByTimestamp(sorted, rows[1]), Tail(rows))

SortByTimestamp(rows) == SortFrom(<<>>, rows)

\* correlate_tx_and_errors, l.380-391: the rows printed.
CorrelatedLoop(rows, fields) ==
    [i \in 1..Len(rows) |->
        LET row_type == IF "_type" \in DOMAIN rows[i] THEN rows[i]["_type"] ELSE "?"
        IN Printed(IF row_type = "ERROR" THEN ">>>" ELSE "    ",
                   RowTimestamp(rows[i]),
                   IF row_type = "ERROR" THEN "ERROR" ELSE "DEBUG",
                   Prefix(RowBody(RowData(rows[i])), BodyWidth),
                   RowData(rows[i]), fields)]

---------------------------------------------------------------------------
(* The invocation                                                          *)

DefaultMinutes == 60
DefaultLimit == 200
ErrorQueryLimit == 100

\* The mode main() dispatches on, l.457-493.
Mode ==
    IF args.tx /\ args.errors THEN "correlated"
    ELSE IF args.tx THEN "tx"
    ELSE IF args.errors THEN "errors"
    ELSE "general"

\* The severity, body filter and limit of the n-th query_logs call of the
\* invocation: l.495-505 (general), l.266-275 (tx), l.301-310 (errors),
\* l.334-356 (correlated: DEBUG, then ERROR with limit=100).
CallSeverity(n) ==
    IF Mode = "general" THEN args.severity
    ELSE IF Mode = "tx" THEN Some("DEBUG")
    ELSE IF Mode = "errors" THEN Some("ERROR")
    ELSE IF n = 1 THEN Some("DEBUG") ELSE Some("ERROR")

CallBodyFilter(n) == IF Mode = "general" THEN args.body_filter ELSE None

CallLimit(n) == IF Mode = "correlated" /\ n = 2 THEN ErrorQueryLimit ELSE args.limit

\* The query_logs calls the mode makes.
CallsOf(mode) == IF mode = "correlated" THEN 2 ELSE 1

\* main, l.448-454
Main ==
    /\ pc = "main"
    /\ metadata_filters' = parse_metadata_filters(args.metadata)
    /\ fields_to_show' = IF Truthy(args.fields) THEN args.fields ELSE NoList
    /\ pc' = "query"
    /\ UNCHANGED <<args, clock, replies, sent, fetched, tx_rows, all_rows,
                   shown_fields, out, err>>

\* query_logs, l.39-156: one call. The ValueError of a time string, the
\* exception of requests.post (no connection, timeout) and the one of
\* response.json() are caught nowhere: they end the invocation.
query_logs ==
    /\ pc = "query"
    /\ LET n == Len(fetched) + 1
           times == ResolveTimes(args.minutes, args.start, args.end, clock)
           payload == [start |-> timegm_ms(times.start_time),
                       end |-> timegm_ms(times.end_time),
                       filter |-> FilterExpr(CallSeverity(n), CallBodyFilter(n),
                                             args.trace_id, metadata_filters),
                       limit |-> CallLimit(n)]
           reply == Head(replies)
           rows == IF reply.kind = "ok" THEN reply.rows ELSE <<>>
       IN IF ~times.ok
          THEN /\ pc' = "crashed"
               /\ err' = "ValueError"
               /\ UNCHANGED <<sent, replies, fetched>>
          ELSE /\ sent' = Append(sent, payload)
               /\ replies' = Tail(replies)
               /\ IF reply.kind = "exception"
                  THEN pc' = "crashed" /\ err' = "RequestException" /\ UNCHANGED fetched
                  ELSE IF reply.kind = "badjson"
                  THEN pc' = "crashed" /\ err' = "JSONDecodeError" /\ UNCHANGED fetched
                  ELSE /\ fetched' = Append(fetched, rows)
                       /\ pc' = IF n < CallsOf(Mode) THEN "query" ELSE "render"
                       /\ UNCHANGED err
    /\ UNCHANGED <<args, clock, metadata_filters, fields_to_show, tx_rows, all_rows,
                   shown_fields, out>>

\* main, l.507-515, and display_logs, l.213-260
display_logs ==
    /\ pc = "render" /\ Mode = "general"
    /\ Len(fetched[1]) > 0
    /\ LET rows == fetched[1]
           highlight_keywords ==
               IF Truthy(args.highlight) THEN args.highlight.v ELSE DefaultHighlight
           fields == SelectFields(rows, fields_to_show, args.show_all_fields)
       IN /\ shown_fields' = fields
          /\ out' = DisplayLoop(rows, highlight_keywords, args.body_filter, fields)
    /\ pc' = "done"
    /\ UNCHANGED <<args, clock, replies, metadata_filters, fields_to_show, sent,
                   fetched, tx_rows, all_rows, err>>

\* main, l.516-517: "No logs found."
no_logs_found ==
    /\ pc = "render" /\ Mode = "general"
    /\ Len(fetched[1]) = 0
    /\ pc' = "done"
    /\ UNCHANGED <<args, clock, replies, metadata_filters, fields_to_show, sent,
                   fetched, tx_rows, all_rows, shown_fields, out, err>>

\* query_tx_logs, l.277-295, after its query_logs call
query_tx_logs ==
    /\ pc = "render" /\ Mode = "tx"
    /\ LET txs == SelectSeq(fetched[1], IsTxRow)
           fields == SelectFields(txs, fields_to_show, args.show_all_fields)
       IN /\ tx_rows' = txs
          /\ shown_fields' = fields
          /\ out' = PlainLoop(txs, BodyWidth, fields)
    /\ pc' = "done"
    /\ UNCHANGED <<args, clock, replies, metadata_filters, fields_to_show, sent,
                   fetched, all_rows, err>>

\* query_error_logs, l.312-326, after its query_logs call
query_error_logs ==
    /\ pc = "render" /\ Mode = "errors"
    /\ LET rows == fetched[1]
           fields == SelectFields(rows, fields_to_show, args.show_all_fields)
       IN /\ shown_fields' = fields
          /\ out' = PlainLoop(rows, ErrorBodyWidth, fields)
    /\ pc' = "done"
    /\ UNCHANGED <<args, clock, replies, metadata_filters, fields_to_show, sent,
                   fetched, tx_rows, all_rows, err>>

\* correlate_tx_and_errors, l.344 and l.358-391, after its two query_logs calls
correlate_tx_and_errors ==
    /\ pc = "render" /\ Mode = "correlated"
    /\ LET txs == SelectSeq(fetched[1], IsTxRow)
           error_rows == fetched[2]
           merged == SortByTimestamp(TagAndConcat(txs, error_rows))
           fields == SelectFields(merged, fields_to_show, args.show_all_fields)
       IN /\ tx_rows' = txs
          /\ all_rows' = merged
          /\ shown_fields' = fields
          /\ out' = CorrelatedLoop(merged, fields)
    /\ pc' = "done"
    /\ UNCHANGED <<args, clock, replies, metadata_filters, fields_to_show, sent,
                   fetched, err>>

Next ==
    \/ Main
    \/ query_logs
    \/ display_logs
    \/ no_logs_found
    \/ query_tx_logs
    \/ query_error_logs
    \/ correlate_tx_and_errors

---------------------------------------------------------------------------
(* Inputs                                                                  *)

\* The argparse defaults, l.429-446.
DefaultArgs ==
    [minutes |-> DefaultMinutes, severity |-> None, body_filter |-> None,
     limit |-> DefaultLimit, highlight |-> NoList, start |-> None, end |-> None,
     tx |-> FALSE, errors |-> FALSE, trace_id |-> None, metadata |-> NoList,
     fields |-> NoList, show_all_fields |-> FALSE]

Modes == {"general", "tx", "errors", "correlated"}

WithMode(a, mode) ==
    [a EXCEPT !.tx = mode \in {"tx", "correlated"},
              !.errors = mode \in {"errors", "correlated"}]

\* 2025-01-01T10:00:30.250 and 2025-01-02T00:00:10.000
Clocks == {0 * MsPerDay + 36030250, 1 * MsPerDay + 10000}

Ok(rows) == [kind |-> "ok", rows |-> rows]
Failure(kind) == [kind |-> kind, rows |-> <<>>]

\* The answers that are no rows: a status code other than 200, a status other
\* than "success", an exception of requests.post, a body that is no JSON.
Failures == {Failure("http"), Failure("failed"), Failure("exception"), Failure("badjson")}

TxRow1 ==
    [timestamp |-> "2025-01-01T10:00:01Z",
     data |-> [body |-> StrVal("[TX] BEGIN"), severity_text |-> StrVal("DEBUG"),
               trace_id |-> StrVal("abc")]]

ErrorRow1 ==
    [timestamp |-> "2025-01-01T10:00:02Z",
     data |-> [body |-> StrVal("failed"), severity_text |-> StrVal("ERROR"),
               span_id |-> StrVal("s1")]]

\* What the start state leaves unset.
InitRest ==
    /\ pc = "main"
    /\ metadata_filters = NoList
    /\ fields_to_show = NoList
    /\ sent = <<>>
    /\ fetched = <<>>
    /\ tx_rows = <<>>
    /\ all_rows = <<>>
    /\ shown_fields = <<>>
    /\ out = <<>>
    /\ err = ""

MaxMinutes == 2

\* The --start and --end strings: absent, ISO-8601 with and without the Z and
\* the fraction, bare HH:MM:SS, and strings of neither format.
TimeArgs ==
    {None, Some("2025-01-01T10:00:00Z"), Some("2025-01-01T10:05:00"),
     Some("2025-01-01T10:00:00.500Z"), Some("10:00:00"), Some("10:05:00"),
     Some("Tuesday"), Some("10:05"), Some("25:00:00")}

\* The answer to a query for the rows of one severity.
SmallReplies(severity) ==
    Failures \cup {Ok(<<>>)}
    \cup (IF severity = "ERROR" THEN {Ok(<<ErrorRow1>>)} ELSE {Ok(<<TxRow1>>)})

ReplySeqs(mode, R(_)) ==
    IF mode = "correlated" THEN {<<a, b>> : a \in R("DEBUG"), b \in R("ERROR")}
    ELSE IF mode = "errors" THEN {<<b>> : b \in R("ERROR")}
    ELSE {<<a>> : a \in R("DEBUG")}

\* Every mode, every look-back of 1 to MaxMinutes minutes, every pair of time
\* arguments, every answer of the service.
Init ==
    /\ \E mode \in Modes, m \in 1..MaxMinutes, s \in TimeArgs, e \in TimeArgs :
          /\ args = [WithMode(DefaultArgs, mode) EXCEPT !.minutes = m, !.start = s, !.end = e]
          /\ replies \in ReplySeqs(mode, SmallReplies)
    /\ clock \in Clocks
    /\ InitRest

Spec == Init /\ [][Next]_vars

---------------------------------------------------------------------------
(* Inputs for the filter expression                                        *)

MaxMeta == 2

\* --meta arguments: key=value, blanks around the key and the value, a key
\* given twice, an argument with no "=", a value that holds an "=".
MetaStrings == {"span_id=xyz", " k = v ", "span_id=2", "novalue", "a=b=c"}

MetaArgs ==
    {NoList} \cup {SomeList(l) : l \in UNION {[1..n -> MetaStrings] : n \in 1..MaxMeta}}

OkReplies(severity) ==
    {Ok(<<>>)} \cup (IF severity = "ERROR" THEN {Ok(<<ErrorRow1>>)} ELSE {Ok(<<TxRow1>>)})

\* Every mode and every combination of the four criteria; --severity and
\* --filter reach query_logs in the general mode only.
InitFilter ==
    /\ \E mode \in Modes, sev \in {None, Some(""), Some("ERROR")},
          body \in {None, Some("timeout")}, trace \in {None, Some("abc")},
          meta \in MetaArgs :
          /\ mode # "general" => sev = None /\ body = None
          /\ args = [WithMode(DefaultArgs, mode) EXCEPT !.severity = sev,
                        !.body_filter = body, !.trace_id = trace, !.metadata = meta]
          /\ replies \in ReplySeqs(mode, OkReplies)
    /\ clock = 36030250
    /\ InitRest

SpecFilter == InitFilter /\ [][Next]_vars

---------------------------------------------------------------------------
(* Inputs for the display paths                                            *)

MaxRows == 2

TxRow2 ==
    [timestamp |-> "2025-01-01T10:00:02Z",
     data |-> ("body" :> StrVal("[TX] COMMIT")) @@ ("severity_text" :> StrVal("DEBUG"))
              @@ ("trace_id" :> NullVal) @@ ("app.component" :> StrVal("db"))]

\* The timestamp of TxRow1.
TxRow3 ==
    [timestamp |-> "2025-01-01T10:00:01Z",
     data |-> [body |-> StrVal("Autocommit [TX]"), severity_text |-> StrVal("DEBUG")]]

\* A row with no timestamp.
TxRow4 ==
    [data |-> [body |-> StrVal("[TX] late"), severity_text |-> StrVal("DEBUG"),
               span_id |-> IntVal(42)]]

\* A DEBUG row that is no [TX] row.
DebugRow ==
    [timestamp |-> "2025-01-01T10:00:00Z",
     data |-> [body |-> StrVal("select 1"), severity_text |-> StrVal("DEBUG"),
               span_id |-> StrVal("s0")]]

\* The timestamp of TxRow1 and TxRow3.
ErrorRow2 ==
    [timestamp |-> "2025-01-01T10:00:01Z",
     data |-> [body |-> StrVal("rollback of [TX]"), severity_text |-> StrVal("ERROR"),
               trace_id |-> StrVal("abc")]]

\* The timestamp of ErrorRow1 and TxRow2; no body.
ErrorRow3 ==
    [timestamp |-> "2025-01-01T10:00:02Z",
     data |-> [severity_text |-> StrVal("ERROR"), zone |-> ListVal(<<1, 22>>)]]

InfoRow ==
    [timestamp |-> "2025-01-01T09:59:59Z",
     data |-> [body |-> StrVal("BEGIN work"), severity_text |-> StrVal("INFO")]]

\* No severity_text.
PlainRow ==
    [timestamp |-> "2025-01-01T10:00:03Z",
     data |-> [body |-> StrVal("hello errors"), trace_id |-> StrVal("abc")]]

DebugRows == {TxRow1, TxRow2, TxRow3, TxRow4, DebugRow}
ErrorRows == {ErrorRow1, ErrorRow2, ErrorRow3}
AllRows == DebugRows \cup ErrorRows \cup {InfoRow, PlainRow}

SeqsUpTo(S, n) == UNION {[1..k -> S] : k \in 0..n}

\* The service answers a query for one severity with rows of that severity.
RowReplies(severity) ==
    {Ok(rows) : rows \in SeqsUpTo(IF severity = "ERROR" THEN ErrorRows ELSE DebugRows,
                                  MaxRows)}

\* --fields: absent, given with no name (nargs="*"), given with names.
FieldArgs == {NoList, SomeList(<<>>), SomeList(<<"span_id">>), SomeList(<<"zone", "trace_id">>)}

\* Every mode, every answer of up to MaxRows rows, every choice of --fields
\* and --show-all-fields; --highlight and --filter act in the general mode only.
InitRender ==
    /\ \E mode \in Modes, f \in FieldArgs, all \in BOOLEAN,
          h \in {NoList, SomeList(<<"hello">>)}, body \in {None, Some("TX")} :
          /\ mode # "general" => h = NoList /\ body = None
          /\ args = [WithMode(DefaultArgs, mode) EXCEPT !.fields = f,
                        !.show_all_fields = all, !.highlight = h, !.body_filter = body]
          /\ IF mode = "general"
             THEN replies \in {<<Ok(rows)>> : rows \in SeqsUpTo(AllRows, MaxRows)}
             ELSE replies \in ReplySeqs(mode, RowReplies)
    /\ clock = 36030250
    /\ InitRest

SpecRender == InitRender /\ [][Next]_vars

---------------------------------------------------------------------------
(* Inputs for format_metadata_fields                                       *)

MaxValueLen == 60

\* A string of n digits.
RECURSIVE LongText(_)
LongText(n) ==
    IF n = 0 THEN "" ELSE LongText(n - 1) \o SubSeq(Digits, (n % 10) + 1, (n % 10) + 1)

\* Strings of every length up to MaxValueLen, null, an integer, and lists whose
\* JSON text is 9, 49 and 51 characters long.
FormatValues ==
    {StrVal(LongText(n)) : n \in 0..MaxValueLen}
    \cup {NullVal, IntVal(12345), ListVal(<<1, 22, 345>>),
          ListVal([i \in 1..24 |-> 7]), ListVal([i \in 1..25 |-> 7])}

FormatRows(severity) ==
    LET base == [body |-> StrVal("[TX] failed"), severity_text |-> StrVal(severity)]
    IN {[timestamp |-> "2025-01-01T10:00:01Z", data |-> ("trace_id" :> v) @@ base] :
            v \in FormatValues}
       \cup {[timestamp |-> "2025-01-01T10:00:01Z",
              data |-> ("trace_id" :> v) @@ ("span_id" :> w) @@ base] :
            v \in {NullVal, StrVal("abc")}, w \in {IntVal(12345), StrVal(LongText(51))}}
       \cup {[timestamp |-> "2025-01-01T10:00:01Z", data |-> base]}

FormatFieldArgs ==
    {NoList, SomeList(<<"span_id", "trace_id">>),
     SomeList(<<"trace_id", "absent", "trace_id">>), SomeList(<<"absent">>)}

\* Every mode; one row whose data holds a value of every kind and length.
InitFormat ==
    /\ \E mode \in Modes, f \in FormatFieldArgs, all \in BOOLEAN :
          /\ args = [WithMode(DefaultArgs, mode) EXCEPT !.fields = f, !.show_all_fields = all]
          /\ IF mode = "correlated"
             THEN replies \in {<<Ok(<<a>>), b>> : a \in FormatRows("DEBUG"),
                                                  b \in OkReplies("ERROR")}
                      \cup {<<Ok(<<>>), Ok(<<b>>)>> : b \in FormatRows("ERROR")}
             ELSE IF mode = "errors"
             THEN replies \in {<<Ok(<<b>>)>> : b \in FormatRows("ERROR")}
             ELSE replies \in {<<Ok(<<>>)>>} \cup {<<Ok(<<a>>)>> : a \in FormatRows("DEBUG")}
    /\ clock = 36030250
    /\ InitRest

SpecFormat == InitFormat /\ [][Next]_vars

---------------------------------------------------------------------------
(* Inputs for the body filter: a service that evaluates the filter         *)

UpperLetters == "ABCDEFGHIJKLMNOPQRSTUVWXYZ"
LowerLetters == "abcdefghijklmnopqrstuvwxyz"

\* A character with its case folded: an upper-case letter becomes the
\* lower-case one, every other character is itself.
LowerChar(c) ==
    IF \E i \in 1..26 : SubSeq(UpperLetters, i, i) = c
    THEN LET i == CHOOSE j \in 1..26 : SubSeq(UpperLetters, j, j) = c
         IN SubSeq(LowerLetters, i, i)
    ELSE c

RECURSIVE Lower(_)
Lower(s) == IF s = "" THEN "" ELSE LowerChar(Head(s)) \o Lower(Tail(s))

\* The clause body ILIKE "%value%" of l.88 as the service evaluates it:
\* containment with the case of the letters ignored. (The model's filter
\* strings hold neither % nor _, the wildcards of the pattern.)
ILike(value, body) == Contains(Lower(value), Lower(body))

\* A row the service returns for the filter expression of a --filter argument:
\* any row when the argument adds no clause (l.87), else a row whose body
\* matches the clause.
ServiceMatches(body_filter, row) ==
    ~Truthy(body_filter) \/ ILike(body_filter.v, RowBody(RowData(row)))

\* --filter: absent, empty, and strings in the case of the bodies and in
\* another case.
BodyFilterArgs ==
    {None, Some(""), Some("TX"), Some("tx"), Some("begin"), Some("failed"),
     Some("Error")}

\* Every mode; in the general mode every --filter argument, answered with up
\* to MaxRows rows the filter expression matches.
InitBody ==
    /\ \E mode \in Modes, body \in BodyFilterArgs :
          /\ mode # "general" => body = None
          /\ args = [WithMode(DefaultArgs, mode) EXCEPT !.body_filter = body]
          /\ IF mode = "general"
             THEN replies \in {<<Ok(rows)>> :
                      rows \in SeqsUpTo({r \in AllRows : ServiceMatches(body, r)}, MaxRows)}
             ELSE replies \in ReplySeqs(mode, SmallReplies)
    /\ clock = 36030250
    /\ InitRest

SpecBody == InitBody /\ [][Next]_vars

---------------------------------------------------------------------------
(* Properties                                                              *)

\* The invocation has rendered its rows: it ended normally, and not with
\* "No logs found.".
Rendered == pc = "done" /\ ~(Mode = "general" /\ Len(fetched[1]) = 0)

\* The rows the display path of the mode goes through, in its order.
PassesBodyFilter(row) ==
    ~Truthy(args.body_filter) \/ Contains(args.body_filter.v, RowBody(RowData(row)))

DisplayedRows ==
    IF Mode = "correlated" THEN all_rows
    ELSE IF Mode = "tx" THEN tx_rows
    ELSE IF Mode = "errors" THEN fetched[1]
    ELSE SelectSeq(fetched[1], PassesBodyFilter)

Count(seq, x) == Cardinality({i \in 1..Len(seq) : seq[i] = x})

Untagged(row) == [k \in DOMAIN row \ {"_type"} |-> row[k]]

\* C1: the merged timeline of correlate_tx_and_errors has |A| + |B| elements,
\* is a permutation of A ++ B (A the [TX] rows, B the ERROR rows), each row
\* unaltered but for its tag, and each row carries the tag of its stream: "TX"
\* for a row of A, "ERROR" for a row of B.
C1_MergedIsTaggedPermutation ==
    (pc = "done" /\ Mode = "correlated") =>
        LET A == tx_rows
            B == fetched[2]
        IN /\ Len(all_rows) = Len(A) + Len(B)
           /\ \A i \in 1..Len(all_rows) :
                 /\ "_type" \in DOMAIN all_rows[i]
                 /\ all_rows[i]["_type"] \in {"TX", "ERROR"}
                 /\ Count(all_rows, all_rows[i])
                      = Count(IF all_rows[i]["_type"] = "TX" THEN A ELSE B,
                              Untagged(all_rows[i]))
           /\ \A i \in 1..Len(A) : Count(all_rows, ("_type" :> "TX") @@ A[i]) = Count(A, A[i])
           /\ \A i \in 1..Len(B) : Count(all_rows, ("_type" :> "ERROR") @@ B[i]) = Count(B, B[i])

\* C1's case: two [TX] rows and two ERROR rows were merged.
C1_Witness ==
    /\ pc = "done" /\ Mode = "correlated"
    /\ Len(tx_rows) = 2 /\ Len(fetched[2]) = 2
    /\ Len(all_rows) = 4

\* C2: the merged timeline is sorted non-decreasing by the timestamp string
\* (lexicographic, a missing timestamp as ""), and stably: the rows of one
\* timestamp are in the order they have in A ++ B.
C2_SortedAndStable ==
    (pc = "done" /\ Mode = "correlated") =>
        LET concat == [i \in 1..Len(tx_rows) |-> ("_type" :> "TX") @@ tx_rows[i]]
                      \o [i \in 1..Len(fetched[2]) |-> ("_type" :> "ERROR") @@ fetched[2][i]]
            Key(row) == IF "timestamp" \in DOMAIN row THEN row.timestamp ELSE ""
        IN /\ \A i \in 1..(Len(all_rows) - 1) :
                 StrLeq(Key(all_rows[i]), Key(all_rows[i + 1]))
           /\ \A t \in {Key(concat[i]) : i \in 1..Len(concat)} :
                 LET At(row) == Key(row) = t
                 IN SelectSeq(all_rows, At) = SelectSeq(concat, At)

\* C2's case: the sort moved a row, a [TX] row and an ERROR row of one
\* timestamp are merged, and a row with no timestamp is first.
C2_Witness ==
    /\ pc = "done" /\ Mode = "correlated"
    /\ Len(all_rows) = 4
    /\ "timestamp" \notin DOMAIN all_rows[1]
    /\ \E i \in 1..3 :
          /\ all_rows[i]["_type"] = "TX" /\ all_rows[i + 1]["_type"] = "ERROR"
          /\ RowTimestamp(all_rows[i]) = RowTimestamp(all_rows[i + 1])
    /\ \E i \in 1..Len(tx_rows) : Untagged(all_rows[i]) # tx_rows[i]

\* The whole row set of the display path: display_logs looks at every row it
\* is given, also at those its body filter then skips.
RowSet == IF Mode = "general" THEN fetched[1] ELSE DisplayedRows

\* The sorted union of the data keys of the rows, without body and severity_text.
AllFieldsOf(rows) ==
    Sorted(UNION {DOMAIN RowData(rows[i]) : i \in 1..Len(rows)} \ {"body", "severity_text"})

\* C3, as claimed: in every display path the fields rendered are (a) the
\* explicit list if one is given, even with --show-all-fields; (b) otherwise,
\* with --show-all-fields, the sorted union of the data keys minus
\* {body, severity_text}; (c) otherwise trace_id, span_id, app.component.
C3_ExplicitListFirst ==
    (Rendered /\ Len(out) > 0) =>
        shown_fields = IF Truthy(args.fields) THEN args.fields.v
                       ELSE IF args.show_all_fields THEN AllFieldsOf(RowSet)
                       ELSE <<"trace_id", "span_id", "app.component">>

\* C3, amended: --show-all-fields comes first. (a) With --show-all-fields, the
\* sorted union of the data keys of the rows the path renders, minus
\* {body, severity_text}, even when an explicit list is given; (b) otherwise
\* the explicit list if one with a name in it is given; (c) otherwise
\* trace_id, span_id, app.component.
C3_ShowAllFirst ==
    Rendered =>
        shown_fields = IF args.show_all_fields
                       THEN AllFieldsOf(RowSet)
                       ELSE IF Truthy(args.fields) THEN args.fields.v
                       ELSE <<"trace_id", "span_id", "app.component">>

\* C3's case: an explicit list and --show-all-fields are both given, and the
\* merged timeline is rendered with the union of the keys, not with the list.
C3_Witness ==
    /\ Rendered /\ Mode = "correlated"
    /\ args.show_all_fields /\ Truthy(args.fields)
    /\ shown_fields = <<"span_id", "trace_id">>
    /\ args.fields.v = <<"zone", "trace_id">>

\* C4, as claimed: every failure of the query service (a status code other
\* than 200, a status other than "success", a failed or timed out request) is
\* recovered inside query_logs as an empty row set: no such failure ends the
\* invocation, and every query of the mode is still sent.
C4_BackendFailuresRecovered ==
    /\ pc = "crashed" => err = "ValueError"
    /\ pc \in {"render", "done"} => Len(sent) = CallsOf(Mode) /\ Len(fetched) = CallsOf(Mode)

\* The second of the day (2025-01-01) that each well-formed time string of
\* TimeArgs denotes.
SecondOf ==
    ("2025-01-01T10:00:00Z" :> 36000) @@ ("2025-01-01T10:05:00" :> 36300)
    @@ ("2025-01-01T10:00:00.500Z" :> 36000) @@ ("10:00:00" :> 36000)
    @@ ("10:05:00" :> 36300)

ExplicitPair == Truthy(args.start) /\ Truthy(args.end)

\* C6, as claimed: every window sent to the query service has start < end,
\* for a look-back of minutes > 0 and for every explicit (start, end) pair.
C6_WindowOrdered ==
    \A i \in 1..Len(sent) :
        (ExplicitPair \/ args.minutes > 0) => sent[i].start < sent[i].end

\* C6, amended: a look-back of minutes > 0 gives end - start = minutes * 60000,
\* so start < end. An explicit pair is sent unchecked: end - start is the
\* difference of the whole seconds the two strings denote, so start < end
\* holds exactly when the start string denotes an earlier second than the end
\* string.
C6_WindowAsGiven ==
    \A i \in 1..Len(sent) :
        IF ExplicitPair
        THEN /\ args.start.v \in DOMAIN SecondOf /\ args.end.v \in DOMAIN SecondOf
             /\ sent[i].end - sent[i].start
                  = 1000 * (SecondOf[args.end.v] - SecondOf[args.start.v])
             /\ (sent[i].start < sent[i].end)
                  <=> (SecondOf[args.start.v] < SecondOf[args.end.v])
             /\ sent[i].start % 1000 = 0
        ELSE /\ sent[i].end - sent[i].start = args.minutes * 60000
             /\ args.minutes > 0 => sent[i].start < sent[i].end
             /\ sent[i].end % 1000 = 0 /\ clock - sent[i].end \in 0..999

\* C6's case: an explicit pair whose end is the earlier time was sent as an
\* inverted window.
C6_Witness ==
    /\ ExplicitPair
    /\ args.start.v = "10:05:00" /\ args.end.v = "10:00:00"
    /\ Len(sent) = 1
    /\ sent[1].start - sent[1].end = 300000

\* The time strings of TimeArgs of neither accepted format.
Malformed(t) == t.some /\ t.v \in {"Tuesday", "10:05", "25:00:00"}

\* C7, as claimed: when a supplied start or end string matches neither
\* accepted format, the invocation aborts with the invalid-time-format error
\* before any query is sent, in every mode.
C7_MalformedTimeIsFatal ==
    (Malformed(args.start) \/ Malformed(args.end)) =>
        /\ Len(sent) = 0
        /\ pc \in {"main", "query", "crashed"}
        /\ pc = "crashed" => err = "ValueError"

\* The clause of a criterion, and the criteria of the n-th query in the
\* claimed order: severity, body substring, trace id, then the metadata
\* filters as the dict holds them.
Quoted(s) == "\"" \o s \o "\""

Criteria(n) ==
    <<[given |-> Truthy(CallSeverity(n)),
       clause |-> "severity_text=" \o Quoted(CallSeverity(n).v)],
      [given |-> Truthy(CallBodyFilter(n)),
       clause |-> "body ILIKE " \o Quoted("%" \o CallBodyFilter(n).v \o "%")],
      [given |-> Truthy(args.trace_id),
       clause |-> "trace_id=" \o Quoted(args.trace_id.v)]>>
    \o [i \in 1..Len(metadata_filters.v) |->
           [given |-> TRUE,
            clause |-> metadata_filters.v[i].key \o "=" \o Quoted(metadata_filters.v[i].value)]]

IsGiven(c) == c.given

\* The clauses with " AND " between two of them.
RECURSIVE AndJoined(_)
AndJoined(cs) ==
    IF Len(cs) = 0 THEN ""
    ELSE cs[1].clause \o (IF Len(cs) > 1 THEN " AND " ELSE "") \o AndJoined(Tail(cs))

\* C5: the filter expression query_logs sends is the " AND "-join of one
\* clause per supplied criterion (an empty string counts as not supplied), in
\* the order severity, body substring, trace id, metadata filters in the
\* caller's order; it is empty with no criterion, and severity ERROR with
\* trace id abc alone give severity_text="ERROR" AND trace_id="abc".
C5_FilterExpression ==
    \A n \in 1..Len(sent) :
        /\ sent[n].filter = AndJoined(SelectSeq(Criteria(n), IsGiven))
        /\ (\A i \in 1..Len(Criteria(n)) : ~Criteria(n)[i].given) => sent[n].filter = ""
        /\ ( /\ CallSeverity(n) = Some("ERROR") /\ args.trace_id = Some("abc")
             /\ ~Truthy(CallBodyFilter(n)) /\ ~Truthy(metadata_filters) )
           => sent[n].filter = "severity_text=\"ERROR\" AND trace_id=\"abc\""

\* C5's case: a query with all four criteria and two metadata filters was sent.
C5_Witness ==
    /\ Len(sent) = 1 /\ Mode = "general"
    /\ Truthy(args.severity) /\ Truthy(args.body_filter) /\ Truthy(args.trace_id)
    /\ metadata_filters.some /\ Len(metadata_filters.v) = 2
    /\ sent[1].filter
         = "severity_text=\"ERROR\" AND body ILIKE \"%timeout%\" AND trace_id=\"abc\" AND k=\"v\" AND span_id=\"xyz\""

HasKeyword(body, keywords) == \E i \in 1..Len(keywords) : Contains(keywords[i], body)

HighlightSet ==
    IF Truthy(args.highlight) THEN args.highlight.v
    ELSE <<"[TX]", "ERROR", "COMMIT", "BEGIN", "Autocommit">>

\* C8, as claimed: in the single-stream display and in the correlated
\* timeline alike, a row has the marker >>> if and only if its body holds a
\* keyword of the highlight set or its severity is ERROR, whatever its stream.
C8_MarkerByKeywordOrSeverity ==
    (Rendered /\ Mode \in {"general", "correlated"}) =>
        \A i \in 1..Len(out) :
            (out[i].marker = ">>>")
              <=> \/ HasKeyword(RowBody(RowData(DisplayedRows[i])), HighlightSet)
                  \/ RowSeverity(RowData(DisplayedRows[i]), "INFO") = "ERROR"

\* C8, amended: in the single-stream display (display_logs) a row has the
\* marker >>> if and only if its body holds a keyword of the highlight set or
\* its severity is ERROR. In the correlated timeline the marker follows the
\* stream alone: >>> if and only if the row came from the ERROR query.
C8_MarkerByPath ==
    Rendered =>
        /\ Len(out) = Len(DisplayedRows)
        /\ \A i \in 1..Len(out) :
              IF Mode = "general"
              THEN (out[i].marker = ">>>")
                     <=> \/ HasKeyword(RowBody(RowData(DisplayedRows[i])), HighlightSet)
                         \/ RowSeverity(RowData(DisplayedRows[i]), "INFO") = "ERROR"
              ELSE IF Mode = "correlated"
              THEN (out[i].marker = ">>>") <=> (all_rows[i]["_type"] = "ERROR")
              ELSE out[i].marker = ""

\* C8's case: the correlated timeline holds a [TX] row, whose body holds the
\* keyword [TX], with the neutral marker, and an ERROR row with >>>.
C8_Witness ==
    /\ Rendered /\ Mode = "correlated"
    /\ \E i \in 1..Len(out) :
          /\ all_rows[i]["_type"] = "TX"
          /\ Contains("[TX]", RowBody(RowData(all_rows[i])))
          /\ out[i].marker = "    "
    /\ \E i \in 1..Len(out) : out[i].marker = ">>>"

\* The (row, part) pairs of the output: part j of printed row i.
PartsOf(i) == 1..Len(out[i].parts)

\* C9: a metadata value whose text has n <= 50 characters is rendered
\* unchanged; one with n > 50 is rendered as its first 47 characters and
\* "...", 50 characters in all; no rendered value is longer than 50.
C9_ValueTruncation ==
    Rendered =>
        \A i \in 1..Len(out) : \A j \in PartsOf(i) :
            LET text == ValueText(RowData(DisplayedRows[i])[out[i].parts[j].field])
                shown == out[i].parts[j].value
            IN /\ Len(shown) <= 50
               /\ Len(text) <= 50 => shown = text
               /\ Len(text) > 50 =>
                     /\ Len(shown) = 50
                     /\ SubSeq(shown, 1, 47) = SubSeq(text, 1, 47)
                     /\ SubSeq(shown, 48, 50) = "..."
               /\ Contains(" | " \o out[i].parts[j].field \o "=" \o shown, out[i].meta)

\* C9's case: a value of 60 characters is rendered in 50 characters, the
\* last three of them "...".
C9_Witness ==
    /\ Rendered
    /\ \E i \in 1..Len(out) : \E j \in PartsOf(i) :
          /\ Len(ValueText(RowData(DisplayedRows[i])[out[i].parts[j].field])) = 60
          /\ Len(out[i].parts[j].value) = 50
          /\ SubSeq(out[i].parts[j].value, 48, 50) = "..."

\* Each part behind " | ".
RECURSIVE EachPrefixed(_)
EachPrefixed(parts) ==
    IF Len(parts) = 0 THEN ""
    ELSE " | " \o parts[1].field \o "=" \o parts[1].value \o EachPrefixed(Tail(parts))

\* C10: format_metadata_fields renders one field=value entry per selected
\* field that is a key of the row, in the order of the selected list, each
\* behind " | "; a selected field that is no key of the row gives no entry, a
\* null value gives "field=", and the result is "" when no selected field is
\* a key of the row.
C10_OneEntryPerPresentField ==
    Rendered =>
        \A i \in 1..Len(out) :
            LET row_data == RowData(DisplayedRows[i])
                Present(f) == f \in DOMAIN row_data
                present == SelectSeq(shown_fields, Present)
            IN /\ Len(out[i].parts) = Len(present)
               /\ \A j \in PartsOf(i) :
                     /\ out[i].parts[j].field = present[j]
                     /\ row_data[present[j]].kind = "null" => out[i].parts[j].value = ""
               /\ out[i].meta = EachPrefixed(out[i].parts)
               /\ Len(present) = 0 => out[i].meta = ""

\* C10's case: of the selected fields trace_id, absent, trace_id the row holds
\* trace_id alone, with a null value.
C10_Witness ==
    /\ Rendered
    /\ shown_fields = <<"trace_id", "absent", "trace_id">>
    /\ \E i \in 1..Len(out) :
          /\ "trace_id" \in DOMAIN RowData(DisplayedRows[i])
          /\ RowData(DisplayedRows[i])["trace_id"].kind = "null"
          /\ out[i].meta = " | trace_id= | trace_id="

---------------------------------------------------------------------------
(* C11: the body filter applied again by display_logs                      *)

\* The general mode rendered the rows of a query with a body filter.
FilteredRender ==
    /\ pc = "done" /\ Mode = "general"
    /\ Truthy(args.body_filter)
    /\ Len(fetched[1]) > 0

\* Every fetched row is one the service matched for the filter of the
\* invocation.
ServiceHonoursFilter ==
    Len(fetched) > 0 =>
        \A i \in 1..Len(fetched[1]) : ServiceMatches(args.body_filter, fetched[1][i])

\* C11: in the general mode with a body filter, every row the service
\* returned for the filter (matched with the case ignored) is rendered:
\* display_logs prints as many rows as query_logs returned.
C11_RefilterDropsNone ==
    (FilteredRender /\ ServiceHonoursFilter) => Len(out) = Len(fetched[1])

===========================================================================
